---- MODULE Spec2Model ----
(***************************************************************************)
(* Verification model of the agentic grader's annotation pipeline:         *)
(*   DocumentAnalyzerAgent  (src/app/agents/document_analyzer.py)          *)
(*   PDFFormattingAgent     (src/app/agents/pdf_formatter.py)              *)
(*   QualityControlAgent    (src/app/agents/quality_control.py)            *)
(*   AgenticGradingService  (src/app/services/agentic_grading_service.py)  *)
(*                                                                         *)
(* Conventions.  A line of text is a sequence of tokens (keywords, single  *)
(* digits, punctuation, " " and "w" for any other run of characters); the  *)
(* regular expressions of the analyzer are matched over these tokens.      *)
(* Region bounding boxes are in points.  Everything create_marked_pdf and  *)
(* the quality gate compute on the marked page is in TENTHS of a point, so *)
(* that scale = 1.1, 1.4 and char_width = 5.5 stay integers (the code uses *)
(* floats; rounding error is not modelled).  confidence is in tenths too.  *)
(***************************************************************************)
EXTENDS Integers, Sequences, FiniteSets, TLC

VARIABLES
    pdf,                  \* student_pdf: the lines the text extraction yields
    pc,                   \* position of process_submission
    layout_analysis,      \* LayoutAnalysisResult of step 1
    grading_results,      \* list of GradingResult of step 2
    page_num,             \* create_marked_pdf: loop variable of the page loop
    margin_y,             \* create_marked_pdf: top of the next feedback block
    new_doc,              \* create_marked_pdf: feedback drawn into new_doc so far
    caller,               \* which call of create_marked_pdf is running
    marked_pdf,           \* content of the file at marked_pdf_path
    retry_count,          \* process_submission: retry_count
    qc_result,            \* process_submission: qc_result
    quality_check_passed, \* process_submission: quality_check_passed
    gate_view,            \* what verify_output read from the file in its last call
    n_plans,              \* history: calls of create_marked_pdf so far
    n_verify,             \* history: calls of verify_output so far
    verified_attempt,     \* history: the attempt whose file verify_output read last
    first_plan,           \* history: what the first call of create_marked_pdf drew
    cls,                  \* _analyze_layout run line by line: its locals
    call                  \* a helper called on its own: its arguments and its result

vars == <<pdf, pc, layout_analysis, grading_results, page_num, margin_y,
          new_doc, caller, marked_pdf, retry_count, qc_result,
          quality_check_passed, gate_view, n_plans, n_verify, verified_attempt,
          first_plan, cls, call>>

(***************************************************************************)
(* Bounds of the model.                                                    *)
(***************************************************************************)
MaxLines == 4        \* lines of text in the student's document
LinesPerPage == 3    \* lines the sample documents carry on one page

\* F applied to the value of e; e is evaluated once, whatever F does with it
Bind(e, F(_)) == CHOOSE r \in {F(x) : x \in {e}} : TRUE

Min(a, b) == IF a < b THEN a ELSE b
Max(a, b) == IF a > b THEN a ELSE b

RECURSIVE SeqMax(_)
SeqMax(s) == IF Len(s) = 1 THEN s[1] ELSE Max(s[1], SeqMax(Tail(s)))

RECURSIVE SeqSum(_)
SeqSum(s) == IF s = <<>> THEN 0 ELSE s[1] + SeqSum(Tail(s))

\* list.sort(key=...): stable, ascending.  Elements are [k |-> key, v |-> item].
RECURSIVE SortKeyed(_)
SortKeyed(s) ==
    IF s = <<>> THEN <<>>
    ELSE Bind(SortKeyed(Tail(s)), LAMBDA rest :
           LET p == Cardinality({i \in 1..Len(rest) : rest[i].k < s[1].k})
           IN  SubSeq(rest, 1, p) \o <<s[1]>> \o SubSeq(rest, p + 1, Len(rest)))

Values(s) == [i \in 1..Len(s) |-> s[i].v]

(***************************************************************************)
(* Region classifier: DocumentAnalyzerAgent._analyze_layout                *)
(***************************************************************************)
Digits == {"0", "1", "2", "3", "4", "5", "6", "7", "8", "9"}

DigitValue(d) ==
    CASE d = "0" -> 0 [] d = "1" -> 1 [] d = "2" -> 2 [] d = "3" -> 3
      [] d = "4" -> 4 [] d = "5" -> 5 [] d = "6" -> 6 [] d = "7" -> 7
      [] d = "8" -> 8 [] d = "9" -> 9

\* \s* from position i: the first position that holds no space
RECURSIVE SkipSpaces(_, _)
SkipSpaces(t, i) ==
    IF i <= Len(t) /\ t[i] = " " THEN SkipSpaces(t, i + 1) ELSE i

\* (\d+) from position i: the position after the longest run of digits
RECURSIVE EndDigits(_, _)
EndDigits(t, i) ==
    IF i <= Len(t) /\ t[i] \in Digits THEN EndDigits(t, i + 1) ELSE i

\* int(match.group(1)) for the digits at positions i..j
RECURSIVE ParseInt(_, _, _)
ParseInt(t, i, j) ==
    IF j < i THEN 0 ELSE 10 * ParseInt(t, i, j - 1) + DigitValue(t[j])

NoMatch == [ok |-> FALSE, num |-> 0]

\* \s*(\d+)\s*[seps]\s*(.+?) from position start; the text is stripped, so
\* (.+?) matches as soon as one character follows the separator
MatchNumbered(t, start, seps) ==
    LET j == SkipSpaces(t, start)
        k == EndDigits(t, j)
        m == SkipSpaces(t, k)
    IN  IF k > j /\ m <= Len(t) /\ t[m] \in seps /\ m + 1 <= Len(t)
        THEN [ok |-> TRUE, num |-> ParseInt(t, j, k - 1)]
        ELSE NoMatch

\* the four question patterns, in the order of the list `patterns`
QuestionPattern(i, t) ==
    CASE i = 1 -> IF Len(t) >= 1 /\ t[1] = "Question"
                  THEN MatchNumbered(t, 2, {":"}) ELSE NoMatch
      [] i = 2 -> IF Len(t) >= 1 /\ t[1] = "Q"
                  THEN MatchNumbered(t, IF Len(t) >= 2 /\ t[2] = "." THEN 3 ELSE 2,
                                     {":", "."})
                  ELSE NoMatch
      [] i = 3 -> MatchNumbered(t, 1, {".", ")", "]"})
      [] i = 4 -> IF Len(t) >= 1 /\ t[1] = "Question"
                  THEN MatchNumbered(t, 2, {".", ")", "]"}) ELSE NoMatch

\* for pattern in patterns: match = re.match(pattern, text); first match wins
MatchQuestion(t) ==
    IF \E i \in 1..4 : QuestionPattern(i, t).ok
    THEN QuestionPattern(CHOOSE i \in 1..4 :
                            /\ QuestionPattern(i, t).ok
                            /\ \A h \in 1..(i - 1) : ~QuestionPattern(h, t).ok, t)
    ELSE NoMatch

\* answer_patterns: ^Answer\s*:\s*(.+), ^A\s*:\s*(.+), ^Ans\s*:\s*(.+)
MatchAnswer(t) ==
    /\ Len(t) >= 1
    /\ t[1] \in {"Answer", "A", "Ans"}
    /\ LET m == SkipSpaces(t, 2)
       IN  m <= Len(t) /\ t[m] = ":" /\ m + 1 <= Len(t)

\* current_question: None, or the number of the question opened last
NoneQuestion == [isNone |-> TRUE, val |-> 0]
SomeQuestion(n) == [isNone |-> FALSE, val |-> n]
\* Python truthiness of current_question: None and 0 are false
Truthy(cq) == ~cq.isNone /\ cq.val # 0

Region(line, type, num) ==
    [page |-> line.page, bbox |-> line.bbox, type |-> type, question_num |-> num]

\* mutant: a line with an answer marker is an answer even before any question
ClassifyLineNoGuard(st, line) ==
    LET m == MatchQuestion(line.text) IN
    IF m.ok
    THEN [layout_info |-> Append(st.layout_info, Region(line, "question", m.num)),
          current_question |-> SomeQuestion(m.num),
          current_question_bbox |-> line.bbox]
    ELSE IF MatchAnswer(line.text)
         THEN [st EXCEPT !.layout_info =
                   Append(@, Region(line, "answer", st.current_question.val))]
         ELSE IF Truthy(st.current_question) /\ line.bbox[2] > st.current_question_bbox[4]
              THEN [st EXCEPT !.layout_info =
                     Append(@, Region(line, "answer", st.current_question.val))]
              ELSE st

\* the body of the loop over the lines
ClassifyLine(st, line) ==
    LET m == MatchQuestion(line.text) IN
    IF m.ok
    THEN [layout_info |-> Append(st.layout_info, Region(line, "question", m.num)),
          current_question |-> SomeQuestion(m.num),
          current_question_bbox |-> line.bbox]
    ELSE IF Truthy(st.current_question)
    THEN IF MatchAnswer(line.text)
         THEN [st EXCEPT !.layout_info =
                   Append(@, Region(line, "answer", st.current_question.val))]
         ELSE IF line.bbox[2] > st.current_question_bbox[4]
              THEN [st EXCEPT !.layout_info =
                     Append(@, Region(line, "answer", st.current_question.val))]
              ELSE st
    ELSE st

RECURSIVE ClassifyLines(_, _)
ClassifyLines(st, lines) ==
    IF lines = <<>> THEN st
    ELSE Bind(ClassifyLine(st, Head(lines)),
              LAMBDA next_st : ClassifyLines(next_st, Tail(lines)))

\* layout_info.sort(key=lambda x: (x["page"], x["bbox"][1]))
SortLayout(info) ==
    Values(SortKeyed([i \in 1..Len(info) |->
                [k |-> info[i].page * 100000 + info[i].bbox[2], v |-> info[i]]]))

OfType(info, type) == SelectSeq(info, LAMBDA r : r.type = type)

\* mutant: the confidence does not look at the number of questions
ConfidenceOfAnyCount(questions_found) == IF questions_found >= 0 THEN 9 ELSE 0

\* "confidence": 0.9 if questions_found > 0 else 0.0   (in tenths)
Confidence(questions_found) == IF questions_found > 0 THEN 9 ELSE 0

ClassifierStart == [layout_info |-> <<>>, current_question |-> NoneQuestion,
                    current_question_bbox |-> <<0, 0, 0, 0>>]

\* _analyze_layout, lines 275-294: sort, count, {"layout": ..., "confidence": ...}
ToolResult(layout_info) ==
    Bind(SortLayout(layout_info), LAMBDA info :
        [layout |-> info,
         confidence |-> Confidence(Len(OfType(info, "question")))])

\* _analyze_layout on the lines of a document
AnalyzeLayoutTool(lines) ==
    Bind(ClassifyLines(ClassifierStart, lines), LAMBDA st : ToolResult(st.layout_info))

\* mutant: the questions are left in the order of the tool's layout
LayoutResultUnsorted(result, lines) ==
    [question_regions |-> OfType(result.layout, "question"),
     answer_regions |-> OfType(result.layout, "answer"),
     text_blocks |-> [i \in 1..Len(lines) |->
                        [page |-> lines[i].page, bbox |-> lines[i].bbox]],
     confidence |-> result.confidence]

\* analyze_layout, lines 103-166: split by type, collect the text blocks, sort
\* the questions by number (stable)
LayoutResult(result, lines) ==
    LET qs == OfType(result.layout, "question")
    IN  [question_regions |->
            Values(SortKeyed([i \in 1..Len(qs) |->
                                [k |-> qs[i].question_num, v |-> qs[i]]])),
         answer_regions |-> OfType(result.layout, "answer"),
         text_blocks |-> [i \in 1..Len(lines) |->
                            [page |-> lines[i].page, bbox |-> lines[i].bbox]],
         confidence |-> result.confidence]

AnalyzeLayoutResult(lines) ==
    Bind(AnalyzeLayoutTool(lines), LAMBDA result : LayoutResult(result, lines))

(***************************************************************************)
(* Sample inputs.  A document is 1..MaxLines lines of text, LinesPerPage    *)
(* to a page, each line one of LineTexts, on pages of size PageRect.       *)
(***************************************************************************)
LineTexts ==
    { <<"Question", " ", "1", ":", " ", "w">>,   \* "Question 1: w"
      <<"2", ")", " ", "w">>,                     \* "2) w"
      <<"Answer", ":", " ", "w">>,                \* "Answer: w"
      <<"w">> }                                   \* plain text

\* old_page.rect of every page of the sample documents, in points
PageRect == [width |-> 600, height |-> 800]

\* the i-th line of a document: its page and its bounding box (x0, y0, x1, y1)
LineAt(texts, i) ==
    LET row == (i - 1) % LinesPerPage IN
    [text |-> texts[i],
     page |-> (i - 1) \div LinesPerPage,
     bbox |-> <<50, 100 + 40 * row, 300, 120 + 40 * row>>]

Document(texts) ==
    [lines     |-> [i \in 1..Len(texts) |-> LineAt(texts, i)],
     num_pages |-> ((Len(texts) - 1) \div LinesPerPage) + 1,
     rect      |-> PageRect]

Documents ==
    { Document(texts) : texts \in UNION { [1..n -> LineTexts] : n \in 1..MaxLines } }

\* a grading result: the question number, the words of the feedback (their
\* lengths) and is_correct
Graded(q, words, ok) == [question_num |-> q, feedback |-> words, is_correct |-> ok]

\* what grade_submission can return: one result per key of correct_answers,
\* in the order of the answer key
GradingOutcomes ==
    { << Graded(1, <<4, 6>>, TRUE) >>,
      << Graded(2, <<9, 12, 8>>, FALSE) >>,
      << Graded(1, <<4, 6>>, TRUE), Graded(2, <<9, 12, 8>>, FALSE) >> }

(***************************************************************************)
(* PDFFormattingAgent.create_marked_pdf  (tenths of a point)               *)
(***************************************************************************)
\* coordinate * scale + padding, scale = 1.1, padding = 20
ScaleAndShift(v) == 11 * v + 200

\* mutant: the margin area starts inside the scaled content
MarginXInsideContent(rect) == 11 * rect.width + 200 - 300

\* margin_x = old_page.rect.width * scale + padding + 30
MarginX(rect) == 11 * rect.width + 200 + 300

\* margin_width = (old_page.rect.width * 1.4) - margin_x - padding
MarginWidth(rect) == 14 * rect.width - MarginX(rect) - 200

\* new_page: width = old width * 1.4, height = old height
NewPageRect(rect) == [width |-> 14 * rect.width, height |-> 10 * rect.height]

\* margin_y = padding + 20, at the start of every page
InitialMarginY == 200 + 200

\* char_width = font_size * 0.5, line_height = font_size + 4, font_size = 11
CharWidth == 55
LineHeight == 150

\* len("[Q<n>]")
RECURSIVE NumDigits(_)
NumDigits(n) == IF n < 10 THEN 1 ELSE 1 + NumDigits(n \div 10)
MarkerLen(n) == 3 + NumDigits(n)

\* mutant: a full line is thrown away when the next word opens a new one
WrapStepLosesLine(st, word, margin_width) ==
    LET word_width == word * CharWidth IN
    IF st.current_width + word_width <= margin_width
    THEN [st EXCEPT !.current_line = Append(@, word),
                    !.current_width = @ + word_width + CharWidth]
    ELSE [lines |-> st.lines, current_line |-> <<word>>, current_width |-> word_width]

\* the greedy word packing of lines 187-204; a word is its length
WrapStep(st, word, margin_width) ==
    LET word_width == word * CharWidth IN
    IF st.current_width + word_width <= margin_width
    THEN [st EXCEPT !.current_line = Append(@, word),
                    !.current_width = @ + word_width + CharWidth]
    ELSE [lines |-> IF st.current_line # <<>>
                    THEN Append(st.lines, st.current_line) ELSE st.lines,
          current_line |-> <<word>>,
          current_width |-> word_width]

RECURSIVE WrapFold(_, _, _)
WrapFold(st, words, margin_width) ==
    IF words = <<>> THEN st
    ELSE Bind(WrapStep(st, Head(words), margin_width),
              LAMBDA next_st : WrapFold(next_st, Tail(words), margin_width))

WrapWords(words, margin_width) ==
    Bind(WrapFold([lines |-> <<>>, current_line |-> <<>>, current_width |-> 0],
                  words, margin_width),
         LAMBDA st : IF st.current_line # <<>>
                     THEN Append(st.lines, st.current_line) ELSE st.lines)

\* len(" ".join(line))
LineChars(line) == SeqSum(line) + (Len(line) - 1)

\* next((f for f in feedback_data if f["question_num"] == question_num), None)
HasFeedback(feedback_data, q) ==
    \E i \in 1..Len(feedback_data) : feedback_data[i].question_num = q
FindFeedback(feedback_data, q) ==
    feedback_data[CHOOSE i \in 1..Len(feedback_data) :
                    /\ feedback_data[i].question_num = q
                    /\ \A h \in 1..(i - 1) : feedback_data[h].question_num # q]

\* _find_answer_region: <<>> for None, else <<region>>
FindAnswerRegion(question_info, answer_regions) ==
    LET matching == SelectSeq(answer_regions,
                        LAMBDA a : a.question_num = question_info.question_num)
        same_page == SelectSeq(answer_regions,
                        LAMBDA a : /\ a.page = question_info.page
                                   /\ a.bbox[2] > question_info.bbox[2]
                                   /\ a.bbox[2] < question_info.bbox[4] + 100)
    IN  IF matching # <<>> THEN <<matching[1]>>
        ELSE IF same_page # <<>>
        THEN <<same_page[CHOOSE i \in 1..Len(same_page) :
                  /\ \A h \in 1..Len(same_page) : same_page[i].bbox[2] <= same_page[h].bbox[2]
                  /\ \A h \in 1..(i - 1) : same_page[h].bbox[2] > same_page[i].bbox[2]]>>
        ELSE <<>>

\* mutant: the next block starts where this one started
NextMarginYNoAdvance(text_rect) == text_rect[2] + 40

\* line 241: margin_y = text_rect.y1 + 10
NextMarginY(text_rect) == text_rect[4] + 100

\* the body of the loop over page_questions (lines 128-241) for one question:
\* the feedback drawn (<<>> when the question is skipped) and the new margin_y
PlaceFeedback(question_info, my, layout, feedback_data, rect) ==
    LET question_num == question_info.question_num
        answer_info  == FindAnswerRegion(question_info, layout.answer_regions)
    IN  IF ~HasFeedback(feedback_data, question_num) \/ answer_info = <<>>
        THEN [drawn |-> <<>>, margin_y |-> my]
        ELSE
        LET feedback == FindFeedback(feedback_data, question_num)
            bbox     == answer_info[1].bbox
            words    == <<MarkerLen(question_num)>> \o feedback.feedback
        IN  Bind(WrapWords(words, MarginWidth(rect)), LAMBDA lines :
        LET max_line_width ==
                SeqMax([i \in 1..Len(lines) |-> LineChars(lines[i]) * CharWidth])
            text_rect == << MarginX(rect) - 40,
                            my - 40,
                            MarginX(rect) + max_line_width + 80,
                            my + Len(lines) * LineHeight + 40 >>
        IN  [drawn |-> << [page         |-> question_info.page,
                           question_num |-> question_num,
                           answer_rect  |-> << ScaleAndShift(bbox[1]), ScaleAndShift(bbox[2]),
                                               ScaleAndShift(bbox[3]), ScaleAndShift(bbox[4]) >>,
                           anchor       |-> << MarginX(rect), my >>,
                           text_rect    |-> text_rect,
                           lines        |-> lines,
                           color        |-> IF feedback.is_correct THEN "green" ELSE "red"] >>,
             margin_y |-> NextMarginY(text_rect)])

RECURSIVE PlaceQuestions(_, _, _, _, _, _)
PlaceQuestions(qs, my, acc, layout, feedback_data, rect) ==
    IF qs = <<>> THEN [drawn |-> acc, margin_y |-> my]
    ELSE Bind(PlaceFeedback(Head(qs), my, layout, feedback_data, rect),
              LAMBDA one : PlaceQuestions(Tail(qs), one.margin_y, acc \o one.drawn,
                                          layout, feedback_data, rect))

\* page_questions = [q for q in layout_analysis.question_regions if q.get("page") == page_num]
PageQuestions(layout, p) == SelectSeq(layout.question_regions, LAMBDA q : q.page = p)

\* mutant: margin_y is kept from the page or the call before
PageStartMarginYLeftOver(left_over) == IF left_over = 0 THEN InitialMarginY ELSE left_over

\* margin_y at the start of a page: line 124 sets it afresh
PageStartMarginY(left_over) == InitialMarginY

\* one iteration of the loop over the pages (lines 90-241)
FormatOnePage(p, left_over, layout, feedback_data, rect) ==
    Bind(PageQuestions(layout, p),
         LAMBDA page_questions :
            PlaceQuestions(page_questions, PageStartMarginY(left_over), <<>>,
                           layout, feedback_data, rect))

(***************************************************************************)
(* QualityControlAgent.verify_output  (tenths of a point)                  *)
(*                                                                         *)
(* The gate reads the saved file back through PyMuPDF.  A page as the gate *)
(* sees it: markers, the question numbers n whose "[Qn]" is in the page's  *)
(* text; blocks, page.get_text("dict")["blocks"]; readable, the answer of  *)
(* _verify_feedback_readability (a pixel read back from the rendering).    *)
(***************************************************************************)
\* fitz.Rect.is_empty
RectIsEmpty(r) == r[1] >= r[3] \/ r[2] >= r[4]

\* fitz.Rect.intersects, as verify_output calls it on two block rectangles:
\* false for an empty operand, else whether the intersection is non-empty
RectIntersects(a, b) ==
    /\ ~RectIsEmpty(a)
    /\ ~RectIsEmpty(b)
    /\ ~RectIsEmpty(<< Max(a[1], b[1]), Max(a[2], b[2]), Min(a[3], b[3]), Min(a[4], b[4]) >>)

\* mutant: the first comparison is not strict
RectanglesOverlapOneSided(rect1, rect2) ==
    ~( \/ rect1[3] <= rect2[1]
       \/ rect1[1] > rect2[3]
       \/ rect1[4] < rect2[2]
       \/ rect1[2] > rect2[4] )

\* mutant: open intervals
RectanglesOverlapOpen(rect1, rect2) ==
    ~( \/ rect1[3] <= rect2[1]
       \/ rect1[1] >= rect2[3]
       \/ rect1[4] <= rect2[2]
       \/ rect1[2] >= rect2[4] )

\* PDFFormattingAgent._rectangles_overlap (closed intervals)
RectanglesOverlap(rect1, rect2) ==
    ~( \/ rect1[3] < rect2[1]
       \/ rect1[1] > rect2[3]
       \/ rect1[4] < rect2[2]
       \/ rect1[2] > rect2[4] )

\* QualityControlAgent._rectangles_overlap
QCRectanglesOverlap(rect1, rect2) ==
    ~( \/ rect1[3] < rect2[1]
       \/ rect1[1] > rect2[3]
       \/ rect1[4] < rect2[2]
       \/ rect1[2] > rect2[4] )

\* DocumentAnalyzerAgent._rectangles_overlap
AnalyzerRectanglesOverlap(rect1, rect2) ==
    ~( \/ rect1[3] < rect2[1]
       \/ rect1[1] > rect2[3]
       \/ rect1[4] < rect2[2]
       \/ rect1[2] > rect2[4] )

Issue(kind, page, qs) == [kind |-> kind, page |-> page, qs |-> qs]

\* the pairs (i, j), i < j <= n, in the order of the two nested loops
RECURSIVE PairsFrom(_, _, _)
PairsFrom(i, j, n) ==
    IF i >= n THEN <<>>
    ELSE IF j > n THEN PairsFrom(i + 1, i + 2, n)
    ELSE << <<i, j>> >> \o PairsFrom(i, j + 1, n)

\* mutant: a block that reaches the page edge counts as beyond it
BeyondMarginsAtEdge(bbox, rect) ==
    bbox[1] <= 0 \/ bbox[3] >= rect.width \/ bbox[2] <= 0 \/ bbox[4] >= rect.height

\* bbox[0] < 0 or bbox[2] > page.rect.width or bbox[1] < 0 or bbox[3] > page.rect.height
BeyondMargins(bbox, rect) ==
    bbox[1] < 0 \/ bbox[3] > rect.width \/ bbox[2] < 0 \/ bbox[4] > rect.height

RECURSIVE Concat(_)
Concat(ss) == IF ss = <<>> THEN <<>> ELSE Head(ss) \o Concat(Tail(ss))

\* the issues one page adds (lines 191-229), page_no = page_num + 1
PageIssues(page, page_no, rect, original_feedback) ==
    LET blocks == page.blocks
        unreadable ==
            SelectSeq(original_feedback,
                      LAMBDA f : f.question_num \in page.markers /\ ~page.readable)
        pairs == SelectSeq(PairsFrom(1, 2, Len(blocks)),
                      LAMBDA ij : /\ blocks[ij[1]].type = 0
                                  /\ blocks[ij[2]].type = 0
                                  /\ RectIntersects(blocks[ij[1]].bbox, blocks[ij[2]].bbox))
        beyond == SelectSeq(blocks,
                      LAMBDA b : b.type = 0 /\ BeyondMargins(b.bbox, rect))
    IN  [i \in 1..Len(unreadable) |->
              Issue("not_readable", page_no, <<unreadable[i].question_num>>)]
        \o [i \in 1..Len(pairs) |-> Issue("overlap", page_no, <<>>)]
        \o [i \in 1..Len(beyond) |-> Issue("beyond_margins", page_no, <<>>)]

\* mutant: a question number counts as found only when every page holds it
MissingFeedbackEveryPage(pages, original_feedback) ==
    LET missing == SelectSeq(original_feedback,
                      LAMBDA f : \E i \in 1..Len(pages) : f.question_num \notin pages[i].markers)
    IN  [i \in 1..Len(missing) |-> missing[i].question_num]

\* missing_feedback: the question numbers found on no page
MissingFeedback(pages, original_feedback) ==
    LET missing == SelectSeq(original_feedback,
                      LAMBDA f : \A i \in 1..Len(pages) : f.question_num \notin pages[i].markers)
    IN  [i \in 1..Len(missing) |-> missing[i].question_num]

QCResult(is_approved, issues, improvements) ==
    [is_approved |-> is_approved, issues |-> issues, improvements |-> improvements]

\* mutant: one issue is tolerated
IsApprovedLenient(all_issues) == Len(all_issues) <= 1

\* is_approved = len(all_issues) == 0
IsApproved(all_issues) == Len(all_issues) = 0

\* mutant: the except clause lets the output through
VerifyOutputApprovesOnError(pages, rect, original_feedback, raises) ==
    IF raises
    THEN QCResult(TRUE, <<Issue("check_failed", 0, <<>>)>>, "empty")
    ELSE
    LET missing_feedback == MissingFeedback(pages, original_feedback)
        all_issues ==
            Concat([i \in 1..Len(pages) |-> PageIssues(pages[i], i, rect, original_feedback)])
            \o (IF missing_feedback # <<>>
                THEN <<Issue("missing", 0, missing_feedback)>> ELSE <<>>)
    IN  QCResult(IsApproved(all_issues), all_issues, "suggestions")

\* verify_output; raises: whether anything inside the try block raised
VerifyOutput(pages, rect, original_feedback, raises) ==
    IF raises
    THEN QCResult(FALSE, <<Issue("check_failed", 0, <<>>)>>, "empty")
    ELSE
    LET missing_feedback == MissingFeedback(pages, original_feedback)
        all_issues ==
            Concat([i \in 1..Len(pages) |-> PageIssues(pages[i], i, rect, original_feedback)])
            \o (IF missing_feedback # <<>>
                THEN <<Issue("missing", 0, missing_feedback)>> ELSE <<>>)
    IN  QCResult(IsApproved(all_issues), all_issues, "suggestions")

TextBlock(bbox) == [type |-> 0, bbox |-> bbox]
ImageBlock(bbox) == [type |-> 1, bbox |-> bbox]

\* sample block lists the text extraction can return for the first page
BlockLists ==
    { << TextBlock(<<200, 200, 3000, 400>>), TextBlock(<<200, 600, 3000, 800>>) >>,
      << TextBlock(<<200, 200, 3000, 400>>), TextBlock(<<200, 400, 3000, 600>>) >>,
      << TextBlock(<<200, 200, 3000, 400>>), TextBlock(<<200, 300, 3000, 500>>) >>,
      << TextBlock(<<200, 200, 3000, 400>>), ImageBlock(<<200, 300, 3000, 500>>) >>,
      << TextBlock(<<200, 200, 9000, 400>>) >> }

\* what the library calls of one verify_output call return
GateViews ==
    { [raises |-> FALSE, blocks |-> b, readable |-> TRUE] : b \in BlockLists }
    \cup { [raises |-> FALSE, blocks |-> <<>>, readable |-> FALSE],
           [raises |-> TRUE, blocks |-> <<>>, readable |-> TRUE] }

NoView == [raises |-> FALSE, blocks |-> <<>>, readable |-> TRUE]

\* the pages of a saved file as the gate reads them: the text holds "[Qn]"
\* for the feedback drawn on the page, the blocks are those of the view
PagesOf(file, num_pages, view) ==
    [i \in 1..num_pages |->
        [markers  |-> { file.placements[k].question_num :
                          k \in { h \in 1..Len(file.placements) :
                                    file.placements[h].page = i - 1 } },
         blocks   |-> IF i = 1 THEN view.blocks ELSE <<>>,
         readable |-> view.readable]]

(***************************************************************************)
(* AgenticGradingService.process_submission                                *)
(***************************************************************************)
max_retries == 3

NoLayout == [question_regions |-> <<>>, answer_regions |-> <<>>,
             text_blocks |-> <<>>, confidence |-> 0]
NoFile == [attempt |-> 0, placements |-> <<>>]
NoQC == QCResult(FALSE, <<>>, "none")
ClsStart == [st |-> ClassifierStart, i |-> 1, done |-> FALSE]
NoCall == [op |-> "none"]

\* _extract_answers(student_pdf, layout_analysis): the keys of the answers dict
ExtractAnswers(layout) ==
    { layout.question_regions[i].question_num : i \in 1..Len(layout.question_regions) }

\* mutant: the loop condition is off by one
LoopContinuesOffByOne(rc) == rc <= max_retries

\* while retry_count < max_retries
LoopContinues(rc) == rc < max_retries

\* retry_count += 1
NextRetryCount(rc) == rc + 1

PipelineIdle ==
    /\ pc = "start"
    /\ layout_analysis = NoLayout
    /\ grading_results = <<>>
    /\ page_num = 0
    /\ margin_y = 0
    /\ new_doc = <<>>
    /\ caller = "none"
    /\ marked_pdf = NoFile
    /\ retry_count = 0
    /\ qc_result = NoQC
    /\ quality_check_passed = FALSE
    /\ gate_view = NoView
    /\ n_plans = 0
    /\ n_verify = 0
    /\ verified_attempt = 0
    /\ first_plan = <<>>

Init ==
    /\ pdf \in Documents
    /\ PipelineIdle
    /\ cls = ClsStart
    /\ call = NoCall

\* mutant: lines 55-56 are missing
AnalyzeLayoutNoCheck ==
    /\ pc = "start"
    /\ layout_analysis' = AnalyzeLayoutResult(pdf.lines)
    /\ pc' = "extract"
    /\ UNCHANGED <<pdf, grading_results, page_num, margin_y, new_doc, caller,
                   marked_pdf, retry_count, qc_result, quality_check_passed,
                   gate_view, n_plans, n_verify, verified_attempt, first_plan, cls, call>>

\* lines 51-56: analyze the layout; no question regions is fatal
AnalyzeLayout ==
    /\ pc = "start"
    /\ layout_analysis' = AnalyzeLayoutResult(pdf.lines)
    /\ pc' = IF layout_analysis'.question_regions = <<>> THEN "failed" ELSE "extract"
    /\ UNCHANGED <<pdf, grading_results, page_num, margin_y, new_doc, caller,
                   marked_pdf, retry_count, qc_result, quality_check_passed,
                   gate_view, n_plans, n_verify, verified_attempt, first_plan, cls, call>>

\* lines 58-81: extract the answers and grade them
ExtractAndGrade ==
    /\ pc = "extract"
    /\ IF ExtractAnswers(layout_analysis) = {}
       THEN /\ pc' = "failed"
            /\ UNCHANGED grading_results
       ELSE /\ grading_results' \in GradingOutcomes
            /\ pc' = "first_attempt"
    /\ UNCHANGED <<pdf, layout_analysis, page_num, margin_y, new_doc, caller,
                   marked_pdf, retry_count, qc_result, quality_check_passed,
                   gate_view, n_plans, n_verify, verified_attempt, first_plan, cls, call>>

\* entering create_marked_pdf: open the documents, start the page loop
CallCreateMarkedPdf(who) ==
    /\ caller' = who
    /\ n_plans' = n_plans + 1
    /\ page_num' = 0
    /\ new_doc' = <<>>

\* lines 88-101: the first call of create_marked_pdf; lines 105-108
FirstAttempt ==
    /\ pc = "first_attempt"
    /\ CallCreateMarkedPdf("first")
    /\ pc' = "format"
    /\ UNCHANGED <<pdf, layout_analysis, grading_results, margin_y, marked_pdf,
                   retry_count, qc_result, quality_check_passed, gate_view,
                   n_verify, verified_attempt, first_plan, cls, call>>

\* create_marked_pdf, lines 90-241: one page of the page loop
FormatPage ==
    /\ pc = "format"
    /\ page_num < pdf.num_pages
    /\ \E r \in {FormatOnePage(page_num, margin_y, layout_analysis, grading_results, pdf.rect)} :
           /\ new_doc' = new_doc \o r.drawn
           /\ margin_y' = r.margin_y
    /\ page_num' = page_num + 1
    /\ UNCHANGED <<pdf, pc, layout_analysis, grading_results, caller, marked_pdf,
                   retry_count, qc_result, quality_check_passed, gate_view,
                   n_plans, n_verify, verified_attempt, first_plan, cls, call>>

\* create_marked_pdf, lines 243-245, returning to line 101: the file at
\* marked_pdf_path is the first attempt's
ReturnFirst ==
    /\ pc = "format"
    /\ page_num = pdf.num_pages
    /\ caller = "first"
    /\ marked_pdf' = [attempt |-> n_plans, placements |-> new_doc]
    /\ first_plan' = new_doc
    /\ caller' = "none"
    /\ pc' = "loop"
    /\ UNCHANGED <<pdf, layout_analysis, grading_results, page_num, margin_y, new_doc,
                   retry_count, qc_result, quality_check_passed, gate_view,
                   n_plans, n_verify, verified_attempt, cls, call>>

\* mutant: the retry acts on the improvements and leaves one feedback out
ReturnRetryImproved ==
    /\ pc = "format"
    /\ page_num = pdf.num_pages
    /\ caller = "retry"
    /\ marked_pdf' = [attempt |-> n_plans,
                      placements |-> IF new_doc = <<>> THEN <<>> ELSE Tail(new_doc)]
    /\ retry_count' = NextRetryCount(retry_count)
    /\ caller' = "none"
    /\ pc' = "loop"
    /\ UNCHANGED <<pdf, layout_analysis, grading_results, page_num, margin_y, new_doc,
                   qc_result, quality_check_passed, gate_view,
                   n_plans, n_verify, verified_attempt, first_plan, cls, call>>

\* create_marked_pdf, lines 243-245, returning to line 147; lines 149-154:
\* the improved file replaces the one at marked_pdf_path, retry_count += 1
ReturnRetry ==
    /\ pc = "format"
    /\ page_num = pdf.num_pages
    /\ caller = "retry"
    /\ marked_pdf' = [attempt |-> n_plans, placements |-> new_doc]
    /\ retry_count' = NextRetryCount(retry_count)
    /\ caller' = "none"
    /\ pc' = "loop"
    /\ UNCHANGED <<pdf, layout_analysis, grading_results, page_num, margin_y, new_doc,
                   qc_result, quality_check_passed, gate_view,
                   n_plans, n_verify, verified_attempt, first_plan, cls, call>>

\* lines 110-121: the loop condition holds, verify_output reads the file
Verify ==
    /\ pc = "loop"
    /\ LoopContinues(retry_count)
    /\ \E view \in GateViews :
          /\ gate_view' = view
          /\ qc_result' = VerifyOutput(PagesOf(marked_pdf, pdf.num_pages, view),
                                       NewPageRect(pdf.rect), grading_results,
                                       view.raises)
    /\ n_verify' = n_verify + 1
    /\ verified_attempt' = marked_pdf.attempt
    /\ pc' = "verdict"
    /\ UNCHANGED <<pdf, layout_analysis, grading_results, page_num, margin_y, new_doc,
                   caller, marked_pdf, retry_count, quality_check_passed,
                   n_plans, first_plan, cls, call>>

\* line 110: the loop condition fails
LoopExit ==
    /\ pc = "loop"
    /\ ~LoopContinues(retry_count)
    /\ pc' = "report"
    /\ UNCHANGED <<pdf, layout_analysis, grading_results, page_num, margin_y, new_doc,
                   caller, marked_pdf, retry_count, qc_result, quality_check_passed,
                   gate_view, n_plans, n_verify, verified_attempt, first_plan, cls, call>>

\* mutant: the break of line 125 is missing
ApprovedNoBreak ==
    /\ pc = "verdict"
    /\ qc_result.is_approved
    /\ quality_check_passed' = TRUE
    /\ CallCreateMarkedPdf("retry")
    /\ gate_view' = NoView
    /\ pc' = "format"
    /\ UNCHANGED <<pdf, layout_analysis, grading_results, margin_y, marked_pdf,
                   retry_count, qc_result, n_verify, verified_attempt, first_plan, cls, call>>

\* lines 123-125: approved, leave the loop
Approved ==
    /\ pc = "verdict"
    /\ qc_result.is_approved
    /\ quality_check_passed' = TRUE
    /\ gate_view' = NoView
    /\ pc' = "report"
    /\ UNCHANGED <<pdf, layout_analysis, grading_results, page_num, margin_y, new_doc,
                   caller, marked_pdf, retry_count, qc_result,
                   n_plans, n_verify, verified_attempt, first_plan, cls, call>>

\* lines 127-147: rejected, call create_marked_pdf again
Rejected ==
    /\ pc = "verdict"
    /\ ~qc_result.is_approved
    /\ CallCreateMarkedPdf("retry")
    /\ gate_view' = NoView
    /\ pc' = "format"
    /\ UNCHANGED <<pdf, layout_analysis, grading_results, margin_y, marked_pdf,
                   retry_count, qc_result, quality_check_passed,
                   n_verify, verified_attempt, first_plan, cls, call>>

\* lines 156-175: the report, the copies, the return
Return ==
    /\ pc = "report"
    /\ pc' = "done"
    /\ UNCHANGED <<pdf, layout_analysis, grading_results, page_num, margin_y, new_doc,
                   caller, marked_pdf, retry_count, qc_result, quality_check_passed,
                   gate_view, n_plans, n_verify, verified_attempt, first_plan, cls, call>>

Next ==
    \/ AnalyzeLayout
    \/ ExtractAndGrade
    \/ FirstAttempt
    \/ FormatPage
    \/ ReturnFirst
    \/ ReturnRetry
    \/ Verify
    \/ LoopExit
    \/ Approved
    \/ Rejected
    \/ Return

Spec == Init /\ [][Next]_vars

\* the runs on the documents of fewer than MaxLines lines
ShortInit ==
    /\ pdf \in { d \in Documents : Len(d.lines) < MaxLines }
    /\ PipelineIdle
    /\ cls = ClsStart
    /\ call = NoCall

\* process_submission is one sequential call: it runs while it has a step
FairSpec == ShortInit /\ [][Next]_vars /\ WF_vars(Next)

(***************************************************************************)
(* The classifier on its own, one line of the document at a time.          *)
(***************************************************************************)
ClassifierTexts ==
    { <<"Question", " ", "1", ":", " ", "w">>,     \* pattern 1
      <<"Q", ".", "1", "2", ".", " ", "w">>,       \* pattern 2, two digits
      <<"2", ")", " ", "w">>,                       \* pattern 3
      <<"0", ".", " ", "w">>,                       \* pattern 3, number 0
      <<"Question", " ", "3", "]", " ", "w">>,     \* pattern 4
      <<"Question", " ", "1", ":">>,                \* nothing after the colon
      <<"Answer", ":", " ", "w">>,
      <<"A", " ", ":", " ", "w">>,
      <<"w">> }

ClassifierDocuments ==
    { Document(texts) :
        texts \in UNION { [1..n -> ClassifierTexts] : n \in 1..(MaxLines - 1) } }

ClassifierInit ==
    /\ pdf \in ClassifierDocuments
    /\ PipelineIdle
    /\ cls = ClsStart
    /\ call = NoCall

pipelineVars == <<pc, grading_results, page_num, margin_y, new_doc, caller,
                  marked_pdf, retry_count, qc_result, quality_check_passed,
                  gate_view, n_plans, n_verify, verified_attempt, first_plan>>

\* _analyze_layout, lines 193-273: the next line of the document
ClassifyNext ==
    /\ ~cls.done
    /\ cls.i <= Len(pdf.lines)
    /\ cls' = [cls EXCEPT !.st = ClassifyLine(cls.st, pdf.lines[cls.i]), !.i = @ + 1]
    /\ UNCHANGED <<pdf, layout_analysis, pipelineVars, call>>

\* _analyze_layout, lines 275-294, and analyze_layout, lines 103-166
FinishAnalysis ==
    /\ ~cls.done
    /\ cls.i > Len(pdf.lines)
    /\ layout_analysis' = LayoutResult(ToolResult(cls.st.layout_info), pdf.lines)
    /\ cls' = [cls EXCEPT !.done = TRUE]
    /\ UNCHANGED <<pdf, pipelineVars, call>>

ClassifierNext == ClassifyNext \/ FinishAnalysis

ClassifierSpec == ClassifierInit /\ [][ClassifierNext]_vars

(***************************************************************************)
(* The helpers on their own.  The pipeline stands still; call holds the    *)
(* arguments and the result of the helper called last.                     *)
(***************************************************************************)
NoDocument == [lines |-> <<>>, num_pages |-> 0, rect |-> PageRect]

HelperInit ==
    /\ pdf = NoDocument
    /\ PipelineIdle
    /\ cls = ClsStart
    /\ call = NoCall

(***************************************************************************)
(* The overlap tests: the three _rectangles_overlap and the test of        *)
(* verify_output, on rectangles with coordinates 0..MaxCoord.              *)
(***************************************************************************)
MaxCoord == 3

\* (x0, y0, x1, y1), any four coordinates
SampleRects == (0..MaxCoord) \X (0..MaxCoord) \X (0..MaxCoord) \X (0..MaxCoord)

CallRectanglesOverlap ==
    /\ call.op = "none"
    /\ \E a, b \in SampleRects :
          call' = [op              |-> "_rectangles_overlap",
                   rect1           |-> a,
                   rect2           |-> b,
                   pdf_formatter   |-> RectanglesOverlap(a, b),
                   quality_control |-> QCRectanglesOverlap(a, b),
                   document_analyzer |-> AnalyzerRectanglesOverlap(a, b),
                   verify_output   |-> RectIntersects(a, b)]
    /\ UNCHANGED <<pdf, layout_analysis, cls, pipelineVars>>

OverlapSpec == HelperInit /\ [][CallRectanglesOverlap]_vars

(***************************************************************************)
(* The word wrapping on its own.  A text is a sequence of the characters   *)
(* "x" and " "; the wrapping reads only the lengths of the words, so a     *)
(* word is its length.                                                     *)
(***************************************************************************)
MaxText == 6

SampleTexts == UNION { [1..n -> {"x", " "}] : n \in 0..MaxText }

\* margin_width / width, in tenths of a point: narrower than any word, one
\* character, two words of one character, wide
WrapWidths == {0, 100, 170, 400}

\* text.split(): the maximal runs of characters that are no whitespace
RECURSIVE SplitFrom(_, _, _, _)
SplitFrom(text, i, run, acc) ==
    IF i > Len(text) THEN (IF run > 0 THEN Append(acc, run) ELSE acc)
    ELSE IF text[i] = " "
         THEN SplitFrom(text, i + 1, 0, IF run > 0 THEN Append(acc, run) ELSE acc)
         ELSE SplitFrom(text, i + 1, run + 1, acc)

SplitText(text) == SplitFrom(text, 1, 0, <<>>)

\* " ".join(items), items being strings
RECURSIVE JoinStrings(_)
JoinStrings(items) ==
    IF items = <<>> THEN <<>>
    ELSE IF Len(items) = 1 THEN items[1]
    ELSE items[1] \o <<" ">> \o JoinStrings(Tail(items))

\* " ".join(current_line)
JoinWords(line) == JoinStrings([i \in 1..Len(line) |-> [k \in 1..line[i] |-> "x"]])

\* _add_multiline_feedback, lines 540-549: the body of for word in words
MultilineStep(st, word, max_chars_per_line) ==
    IF st.current_length + word + 1 <= max_chars_per_line
    THEN [st EXCEPT !.current_line = Append(@, word),
                    !.current_length = @ + word + 1]
    ELSE [lines |-> IF st.current_line # <<>>
                    THEN Append(st.lines, st.current_line) ELSE st.lines,
          current_line |-> <<word>>,
          current_length |-> word]

RECURSIVE MultilineFold(_, _, _)
MultilineFold(st, words, max_chars_per_line) ==
    IF words = <<>> THEN st
    ELSE Bind(MultilineStep(st, Head(words), max_chars_per_line),
              LAMBDA next_st : MultilineFold(next_st, Tail(words), max_chars_per_line))

\* _add_multiline_feedback, lines 530-552: max_chars_per_line = int(width / char_width)
MultilineWrap(words, width) ==
    Bind(MultilineFold([lines |-> <<>>, current_line |-> <<>>, current_length |-> 0],
                       words, width \div CharWidth),
         LAMBDA st : IF st.current_line # <<>>
                     THEN Append(st.lines, st.current_line) ELSE st.lines)

\* the lines as the strings that are drawn
LineStrings(lines) == [i \in 1..Len(lines) |-> JoinWords(lines[i])]

CallWrap ==
    /\ call.op = "none"
    /\ \E text \in SampleTexts, width \in WrapWidths :
          call' = [op        |-> "wrap",
                   text      |-> text,
                   width     |-> width,
                   lines     |-> LineStrings(WrapWords(SplitText(text), width)),
                   multiline |-> LineStrings(MultilineWrap(SplitText(text), width))]
    /\ UNCHANGED <<pdf, layout_analysis, cls, pipelineVars>>

WrapSpec == HelperInit /\ [][CallWrap]_vars

(***************************************************************************)
(* PDFFormattingAgent._plan_feedback_placement on its own (tenths of a     *)
(* point).  A text is its number of characters.                            *)
(***************************************************************************)
\* _calculate_text_dimensions: width = len(text) * font_size * 0.5,
\* height = font_size + 2, font_size = 11
CalculateTextDimensions(text) == [width |-> text * CharWidth, height |-> 130]

OnPage(regions, page_no) == SelectSeq(regions, LAMBDA r : r.page = page_no)

\* lines 303-333: page_dims
PageDims(layout, page_no) ==
    LET blocks  == OnPage(layout.text_blocks, page_no)
        regions == OnPage(layout.question_regions \o layout.answer_regions, page_no)
    IN  IF blocks # <<>>
        THEN [width  |-> SeqMax([i \in 1..Len(blocks) |-> blocks[i].bbox[3]]) + 500,
              height |-> SeqMax([i \in 1..Len(blocks) |-> blocks[i].bbox[4]]) + 500]
        ELSE IF regions # <<>>
        THEN [width  |-> SeqMax([i \in 1..Len(regions) |-> regions[i].bbox[3]]) + 1000,
              height |-> SeqMax([i \in 1..Len(regions) |-> regions[i].bbox[4]]) + 1000]
        ELSE [width |-> 5950, height |-> 8420]

\* _has_overlap
HasOverlap(rect, layout, page_no) ==
    \/ \E i \in 1..Len(layout.question_regions) :
          /\ layout.question_regions[i].page = page_no
          /\ RectanglesOverlap(rect, layout.question_regions[i].bbox)
    \/ \E i \in 1..Len(layout.answer_regions) :
          /\ layout.answer_regions[i].page = page_no
          /\ RectanglesOverlap(rect, layout.answer_regions[i].bbox)
    \/ \E i \in 1..Len(layout.text_blocks) :
          /\ layout.text_blocks[i].page = page_no
          /\ RectanglesOverlap(rect, layout.text_blocks[i].bbox)

\* mutant: the scan takes the first row without looking at the layout
ScanColumnNoCheck(y, text_dims, layout, page_no, page_info) ==
    IF y < page_info.height - 500 THEN <<500, y>> ELSE <<500, 500>>

\* _find_next_available_space: the while loop from y on, x = 50
RECURSIVE ScanColumn(_, _, _, _, _)
ScanColumn(y, text_dims, layout, page_no, page_info) ==
    IF y < page_info.height - 500
    THEN IF ~HasOverlap(<<500 - 50, y - 50, 500 + (page_info.width - 1000) + 50,
                          y + text_dims.height + 50>>, layout, page_no)
         THEN <<500, y>>
         ELSE ScanColumn(y + text_dims.height + 100, text_dims, layout, page_no, page_info)
    ELSE <<500, 500>>

FindNextAvailableSpace(text_dims, layout, page_no, page_info) ==
    ScanColumn(500, text_dims, layout, page_no, page_info)

\* lines 361-377: the while loop of "below answer" from y on
RECURSIVE BelowAnswer(_, _, _, _, _, _, _)
BelowAnswer(x, y, available_width, text_dims, layout, page_no, page_dims) ==
    IF HasOverlap(<<x - 50, y - 50, x + available_width + 50,
                    y + text_dims.height * 2 + 50>>, layout, page_no)
    THEN IF y + text_dims.height + 100 > page_dims.height - 500
         THEN FindNextAvailableSpace(text_dims, layout, page_no, page_dims)
         ELSE BelowAnswer(x, y + text_dims.height + 100, available_width, text_dims,
                          layout, page_no, page_dims)
    ELSE <<x, y>>

FeedbackPlacement(page_no, position, width, text, is_correct, is_multiline) ==
    [page_num |-> page_no, position |-> position, width |-> width, text |-> text,
     color |-> IF is_correct THEN "green" ELSE "red", is_multiline |-> is_multiline]

\* _plan_feedback_placement
PlanFeedbackPlacement(feedback_text, answer_info, layout, is_correct) ==
    LET text_dims   == CalculateTextDimensions(feedback_text)
        page_dims   == PageDims(layout, answer_info.page)
        answer_bbox == answer_info.bbox
        x1          == answer_bbox[3] + 300
        y1          == answer_bbox[2]
        right_width == page_dims.width - x1 - 500
        x2          == answer_bbox[1]
        below_width == page_dims.width - x2 - 500
    IN  IF /\ text_dims.width <= right_width
           /\ ~HasOverlap(<<x1 - 50, y1 - 50, x1 + text_dims.width + 50,
                             y1 + text_dims.height + 50>>, layout, answer_info.page)
        THEN FeedbackPlacement(answer_info.page, <<x1, y1>>, right_width,
                               feedback_text, is_correct, FALSE)
        ELSE FeedbackPlacement(answer_info.page,
                               BelowAnswer(x2, answer_bbox[4] + 150, below_width, text_dims,
                                           layout, answer_info.page, page_dims),
                               below_width, feedback_text, is_correct, TRUE)

\* the response of the planner's examples, a second response below it, and
\* other text a page can carry
Response1 == <<1000, 1000, 3000, 1200>>
Response2 == <<1000, 1400, 3000, 1600>>
Prompt1   == <<1000, 600, 3000, 800>>
OtherBlocks ==
    << <<3200, 1000, 4000, 1200>>,     \* right of the response
       <<1000, 1300, 5500, 1500>>,     \* just below it, reaching far right
       <<1000, 5000, 5500, 5200>>,     \* far below, reaching far right
       <<0, 0, 5500, 7000>> >>         \* one block over the whole page

PageRegion(bbox, type, num) == [page |-> 0, bbox |-> bbox, type |-> type, question_num |-> num]

\* the layouts: the text blocks are the lines of the regions and any of OtherBlocks
SampleLayouts ==
    { [question_regions |-> IF q THEN <<PageRegion(Prompt1, "question", 1)>> ELSE <<>>,
       answer_regions   |-> <<PageRegion(Response1, "answer", 1)>>
                            \o (IF r2 THEN <<PageRegion(Response2, "answer", 2)>> ELSE <<>>),
       text_blocks      |->
           (IF lines THEN <<[page |-> 0, bbox |-> Response1]>> ELSE <<>>)
           \o (IF lines /\ q THEN <<[page |-> 0, bbox |-> Prompt1]>> ELSE <<>>)
           \o (IF lines /\ r2 THEN <<[page |-> 0, bbox |-> Response2]>> ELSE <<>>)
           \o [i \in 1..Len(SelectSeq(OtherBlocks, LAMBDA b : b \in others)) |->
                 [page |-> 0, bbox |-> SelectSeq(OtherBlocks, LAMBDA b : b \in others)[i]]],
       confidence       |-> 9] :
      q \in BOOLEAN, r2 \in BOOLEAN, lines \in BOOLEAN,
      others \in SUBSET { OtherBlocks[i] : i \in 1..Len(OtherBlocks) } }

\* len("Good answer"), and two longer texts
SampleTextLengths == {11, 40, 120}

CallPlanFeedbackPlacement ==
    /\ call.op = "none"
    /\ \E layout \in SampleLayouts, text \in SampleTextLengths, is_correct \in BOOLEAN :
         \E k \in 1..Len(layout.answer_regions) :
            call' = [op          |-> "_plan_feedback_placement",
                     layout      |-> layout,
                     answer_info |-> layout.answer_regions[k],
                     text        |-> text,
                     page_rect   |-> PageRect,
                     result      |-> PlanFeedbackPlacement(text, layout.answer_regions[k],
                                                           layout, is_correct)]
    /\ UNCHANGED <<pdf, layout_analysis, cls, pipelineVars>>

PlannerSpec == HelperInit /\ [][CallPlanFeedbackPlacement]_vars

\* lines 341-349: the text fits right of the answer and nothing is in the way
RightOfAnswerIsFree(text_dims, answer_info, layout, page_dims) ==
    LET x == answer_info.bbox[3] + 300
        y == answer_info.bbox[2]
    IN  /\ text_dims.width <= page_dims.width - x - 500
        /\ ~HasOverlap(<<x - 50, y - 50, x + text_dims.width + 50,
                         y + text_dims.height + 50>>, layout, answer_info.page)

\* lines 367 and 378: test_rect of "below answer"
BelowTestRect(x, y, available_width, text_dims) ==
    <<x - 50, y - 50, x + available_width + 50, y + text_dims.height * 2 + 50>>

\* line 430: test_rect of the scan
ScanTestRect(y, text_dims, page_info) ==
    <<500 - 50, y - 50, 500 + (page_info.width - 1000) + 50, y + text_dims.height + 50>>

\* mutant: the loop of "below answer" forgets to move y
MoveDownStepStuck(text_dims) == 0

\* lines 369 and 433: y += text_dims["height"] + 10
MoveDownStep(text_dims) == text_dims.height + 100

\* _plan_feedback_placement one step of its loops at a time.  call.at is the
\* place in the code: "below" the test of line 368, "scan" the test of line
\* 429, "returned" after the return.
StartPlan ==
    /\ call.op = "none"
    /\ \E layout \in SampleLayouts, text \in SampleTextLengths :
         \E k \in 1..Len(layout.answer_regions) :
           LET answer_info == layout.answer_regions[k]
               text_dims   == CalculateTextDimensions(text)
               page_dims   == PageDims(layout, answer_info.page)
               right       == RightOfAnswerIsFree(text_dims, answer_info, layout, page_dims)
           IN  call' = [op          |-> "plan",
                        at          |-> IF right THEN "returned" ELSE "below",
                        layout      |-> layout,
                        answer_info |-> answer_info,
                        text        |-> text,
                        text_dims   |-> text_dims,
                        page_dims   |-> page_dims,
                        x           |-> IF right THEN answer_info.bbox[3] + 300
                                        ELSE answer_info.bbox[1],
                        y           |-> IF right THEN answer_info.bbox[2]
                                        ELSE answer_info.bbox[4] + 150,
                        width       |-> page_dims.width - answer_info.bbox[1] - 500,
                        moves       |-> 0]
    /\ UNCHANGED <<pdf, layout_analysis, cls, pipelineVars>>

\* lines 368-378: the candidate overlaps, y moves down; beyond the bottom
\* margin the scan takes over from the top of the page
MoveDown ==
    /\ call.op = "plan" /\ call.at = "below"
    /\ HasOverlap(BelowTestRect(call.x, call.y, call.width, call.text_dims),
                  call.layout, call.answer_info.page)
    /\ LET y == call.y + MoveDownStep(call.text_dims)
       IN  call' = IF y > call.page_dims.height - 500
                   THEN [call EXCEPT !.at = "scan", !.x = 500, !.y = 500,
                                     !.moves = @ + 1]
                   ELSE [call EXCEPT !.y = y, !.moves = @ + 1]
    /\ UNCHANGED <<pdf, layout_analysis, cls, pipelineVars>>

\* line 368 is false: lines 380-387 return the placement
ReturnBelow ==
    /\ call.op = "plan" /\ call.at = "below"
    /\ ~HasOverlap(BelowTestRect(call.x, call.y, call.width, call.text_dims),
                   call.layout, call.answer_info.page)
    /\ call' = [call EXCEPT !.at = "returned"]
    /\ UNCHANGED <<pdf, layout_analysis, cls, pipelineVars>>

\* lines 429-433: the row of the scan is taken, y moves down
ScanDown ==
    /\ call.op = "plan" /\ call.at = "scan"
    /\ call.y < call.page_dims.height - 500
    /\ HasOverlap(ScanTestRect(call.y, call.text_dims, call.page_dims),
                  call.layout, call.answer_info.page)
    /\ call' = [call EXCEPT !.y = @ + MoveDownStep(call.text_dims)]
    /\ UNCHANGED <<pdf, layout_analysis, cls, pipelineVars>>

\* lines 431-432 and 437; lines 380-387 return the placement
ReturnScan ==
    /\ call.op = "plan" /\ call.at = "scan"
    /\ IF call.y < call.page_dims.height - 500
       THEN /\ ~HasOverlap(ScanTestRect(call.y, call.text_dims, call.page_dims),
                           call.layout, call.answer_info.page)
            /\ call' = [call EXCEPT !.at = "returned"]
       ELSE call' = [call EXCEPT !.at = "returned", !.y = 500]
    /\ UNCHANGED <<pdf, layout_analysis, cls, pipelineVars>>

PlanNext == StartPlan \/ MoveDown \/ ReturnBelow \/ ScanDown \/ ReturnScan

PlanSteps == MoveDown \/ ReturnBelow \/ ScanDown \/ ReturnScan

\* a call that was made runs on: the loops are sequential code
PlanStepSpec == HelperInit /\ [][PlanNext]_vars /\ WF_vars(PlanSteps)

\* page_info of a direct call of _find_next_available_space: A4, the
\* dimensions inferred from the block over the whole page, a short page, and
\* a page lower than the two margins
SamplePageInfos ==
    { [width |-> 5950, height |-> h] : h \in {8420, 7500, 1700, 900} }

CallFindNextAvailableSpace ==
    /\ call.op = "none"
    /\ \E layout \in SampleLayouts, text \in SampleTextLengths, page_info \in SamplePageInfos :
            call' = [op        |-> "_find_next_available_space",
                     layout    |-> layout,
                     text_dims |-> CalculateTextDimensions(text),
                     page_info |-> page_info,
                     result    |-> FindNextAvailableSpace(CalculateTextDimensions(text),
                                                          layout, 0, page_info)]
    /\ UNCHANGED <<pdf, layout_analysis, cls, pipelineVars>>

ScanSpec == HelperInit /\ [][CallFindNextAvailableSpace]_vars

(***************************************************************************)
(* analyze_layout followed by create_marked_pdf, for feedback_data in any  *)
(* order: what is drawn on each page, in the order it is drawn             *)
(***************************************************************************)
FeedbackOrders ==
    { << Graded(1, <<4, 6>>, TRUE), Graded(2, <<9, 12, 8>>, FALSE) >>,
      << Graded(2, <<9, 12, 8>>, FALSE), Graded(1, <<4, 6>>, TRUE) >>,
      << Graded(2, <<9, 12, 8>>, FALSE) >> }

PlanPages ==
    /\ call.op = "none"
    /\ \E doc \in Documents, feedback_data \in FeedbackOrders :
         \E layout \in {AnalyzeLayoutResult(doc.lines)} :
            call' = [op |-> "create_marked_pdf",
                     lines |-> doc.lines,
                     feedback_data |-> feedback_data,
                     pages |-> [p \in 1..doc.num_pages |->
                                  FormatOnePage(p - 1, 0, layout, feedback_data,
                                                doc.rect).drawn]]
    /\ UNCHANGED <<pdf, layout_analysis, cls, pipelineVars>>

OrderSpec == HelperInit /\ [][PlanPages]_vars

(***************************************************************************)
(* PDFService.create_marked_pdf: the comment written next to an answer     *)
(* (tenths of a point)                                                     *)
(***************************************************************************)
\* int(a / b) for b > 0: truncation towards zero
IntDiv(a, b) == IF a >= 0 THEN a \div b ELSE -((-a) \div b)

\* lines 90-103: chars_per_line, recalculated for the full width when the
\* comment is longer than what fits after the answer
CharsPerLine(page_width, text_end, comment_len) ==
    LET after_answer == IntDiv(page_width - text_end - 100, CharWidth)
    IN  IF comment_len > after_answer
        THEN IntDiv(page_width - 600, CharWidth)
        ELSE after_answer

\* lines 110-125: the body of for word in words; a word that does not fit
\* starts a new line only inside `if current_line:`
CommentStep(st, word, chars_per_line) ==
    IF st.current_length + word + 1 <= chars_per_line
    THEN [st EXCEPT !.current_line = Append(@, word),
                    !.current_length = @ + word + 1]
    ELSE IF st.current_line # <<>>
         THEN [inserted |-> Append(st.inserted, st.current_line),
               current_line |-> <<word>>,
               current_length |-> word]
         ELSE st

RECURSIVE CommentFold(_, _, _)
CommentFold(st, words, chars_per_line) ==
    IF words = <<>> THEN st
    ELSE Bind(CommentStep(st, Head(words), chars_per_line),
              LAMBDA next_st : CommentFold(next_st, Tail(words), chars_per_line))

\* lines 105-136: the lines page.insert_text is called with, in order
CommentLines(words, chars_per_line) ==
    Bind(CommentFold([inserted |-> <<>>, current_line |-> <<>>, current_length |-> 0],
                     words, chars_per_line),
         LAMBDA st : IF st.current_line # <<>>
                     THEN Append(st.inserted, st.current_line) ELSE st.inserted)

\* page.rect.width: the sample documents' page, and pages of 80 and 50 points
CommentPageWidths == {6000, 800, 500}

\* page_width - inst.x1: how far before the right edge the answer ends
AnswerEndGaps == {100, 155, 210, 265, 320, 3000}

InsertComment ==
    /\ call.op = "none"
    /\ \E comment \in SampleTexts, page_width \in CommentPageWidths :
        \E gap \in { g \in AnswerEndGaps : g <= page_width } :
         \E chars_per_line \in {CharsPerLine(page_width, page_width - gap, Len(comment))} :
            call' = [op |-> "insert_comment",
                     comment |-> comment,
                     page_width |-> page_width,
                     text_end |-> page_width - gap,
                     chars_per_line |-> chars_per_line,
                     inserted |-> LineStrings(CommentLines(SplitText(comment),
                                                           chars_per_line))]
    /\ UNCHANGED <<pdf, layout_analysis, cls, pipelineVars>>

CommentSpec == HelperInit /\ [][InsertComment]_vars

(***************************************************************************)
(* One page of create_marked_pdf on its own: any page size, any number of  *)
(* questions on the page, feedback of any length                           *)
(***************************************************************************)
\* old_page.rect in points: the sample documents' page, A4, Letter, A5
SamplePageRects ==
    { [width |-> 600, height |-> 800], [width |-> 595, height |-> 842],
      [width |-> 612, height |-> 792], [width |-> 420, height |-> 595] }

\* the words of a feedback text, by their lengths: two short texts, one word
\* of 25 characters, and a text of 12 words of 18 characters
SampleFeedbackWords ==
    { <<4, 6>>, <<9, 12, 8>>, <<25>>, [i \in 1..12 |-> 18] }

\* n questions with their answers, one below the other on page 0; the
\* answers end at x1
StackedLayout(n, x1) ==
    [question_regions |-> [i \in 1..n |->
          [page |-> 0, bbox |-> <<50, 40 * i, 300, 40 * i + 15>>,
           type |-> "question", question_num |-> i]],
     answer_regions |-> [i \in 1..n |->
          [page |-> 0, bbox |-> <<50, 40 * i + 20, x1, 40 * i + 35>>,
           type |-> "answer", question_num |-> i]],
     text_blocks |-> <<>>,
     confidence |-> 9]

DrawPage ==
    /\ call.op = "none"
    /\ \E rect \in SamplePageRects, n \in {1, 2, 14}, words \in SampleFeedbackWords,
          to_edge \in BOOLEAN, is_correct \in BOOLEAN :
          call' = [op |-> "draw_page",
                   rect |-> rect,
                   n |-> n,
                   words |-> words,
                   drawn |-> FormatOnePage(0, 0,
                                StackedLayout(n, IF to_edge THEN rect.width ELSE 300),
                                [i \in 1..n |-> Graded(i, words, is_correct)],
                                rect).drawn]
    /\ UNCHANGED <<pdf, layout_analysis, cls, pipelineVars>>

BoxSpec == HelperInit /\ [][DrawPage]_vars

(***************************************************************************)
(* verify_output on its own: one page whose blocks lie around the page edge *)
(***************************************************************************)
\* the page of the file the gate opens
GatePageRect == [width |-> 8400, height |-> 8000]

\* bboxes whose corners are just inside, on, or just outside the page edge
EdgeBoxes ==
    { <<x0, y0, x1, y1>> :
        x0 \in {-10, 0, 10}, y0 \in {-10, 0, 10},
        x1 \in {GatePageRect.width - 10, GatePageRect.width, GatePageRect.width + 10},
        y1 \in {GatePageRect.height - 10, GatePageRect.height, GatePageRect.height + 10} }

\* the block lists page.get_text("dict")["blocks"] returns: one block, text
\* or image, alone or followed by a text block
EdgeBlockLists ==
    { <<[type |-> t, bbox |-> b]>> \o rest :
        t \in {0, 1}, b \in EdgeBoxes,
        rest \in {<<>>, <<TextBlock(<<0, 0, GatePageRect.width, 100>>)>>,
                  <<TextBlock(<<100, 100, GatePageRect.width + 10, 200>>)>>} }

CallVerifyOutput ==
    /\ call.op = "none"
    /\ \E blocks \in EdgeBlockLists :
          call' = [op |-> "verify_output",
                   blocks |-> blocks,
                   rect |-> GatePageRect,
                   result |-> VerifyOutput(<<[markers |-> {}, blocks |-> blocks,
                                              readable |-> TRUE]>>,
                                           GatePageRect, <<>>, FALSE)]
    /\ UNCHANGED <<pdf, layout_analysis, cls, pipelineVars>>

GateSpec == HelperInit /\ [][CallVerifyOutput]_vars

(***************************************************************************)
(* Regions as the dicts they are: a region may lack a key.  d["k"] raises  *)
(* KeyError when k is missing, d.get("k") is None.  The steps of           *)
(* process_submission that read the regions, on layouts with such regions. *)
(***************************************************************************)
None == -1

\* d.get(k)
Get(d, k) == IF k \in DOMAIN d THEN d[k] ELSE None

\* d[k] raises KeyError
KeyError(d, k) == k \notin DOMAIN d

\* analyze_layout, lines 110-116: the regions of one type
RegionsOfType(layout_info, type) == SelectSeq(layout_info, LAMBDA r : r.type = type)

\* analyze_layout, line 153: question_regions.sort(key=lambda x: x["question_num"])
\* raises when the key function does
SortQuestionsRaises(question_regions) ==
    \E i \in 1..Len(question_regions) : KeyError(question_regions[i], "question_num")

\* _extract_answers, lines 188-209: the keys of answers; a region that lacks
\* question_num, page or bbox is skipped
AnswersOfRegions(question_regions) ==
    { question_regions[i].question_num :
        i \in { h \in 1..Len(question_regions) :
                  {"question_num", "page", "bbox"} \subseteq DOMAIN question_regions[h] } }

\* _find_answer_region, lines 274-283: the list comprehension of the fallback
\* raises at the first answer region without page, or on the page without bbox
SamePageAnswersRaises(question_info, answer_regions) ==
    \E i \in 1..Len(answer_regions) :
        \/ KeyError(answer_regions[i], "page")
        \/ /\ answer_regions[i].page = question_info.page
           /\ KeyError(answer_regions[i], "bbox")

\* create_marked_pdf, lines 129-149, for one question of page_questions whose
\* feedback was found: _find_answer_region or answer_info["bbox"] raises
PlacingRaises(question_info, answer_regions) ==
    LET matching_answers ==
            SelectSeq(answer_regions,
                      LAMBDA a : Get(a, "question_num") = Get(question_info, "question_num"))
    IN  IF matching_answers # <<>>
        THEN KeyError(matching_answers[1], "bbox")
        ELSE \/ KeyError(question_info, "page")
             \/ KeyError(question_info, "bbox")
             \/ SamePageAnswersRaises(question_info, answer_regions)

\* create_marked_pdf, lines 118-138: the questions the loops reach, those with
\* q.get("page") a page of the document and feedback for q.get("question_num")
QuestionsReached(question_regions, feedback_nums, num_pages) ==
    SelectSeq(question_regions,
              LAMBDA q : /\ Get(q, "page") \in 0..(num_pages - 1)
                         /\ Get(q, "question_num") \in feedback_nums)

CreateMarkedPdfRaises(question_regions, answer_regions, feedback_nums, num_pages) ==
    LET reached == QuestionsReached(question_regions, feedback_nums, num_pages)
    IN  \E i \in 1..Len(reached) : PlacingRaises(reached[i], answer_regions)

\* sample regions on the one page of a document
GoodQuestion(n, row) ==
    [type |-> "question", page |-> 0, bbox |-> <<50, 100 + 80 * row, 300, 120 + 80 * row>>,
     question_num |-> n]
GoodAnswer(n, row) ==
    [type |-> "answer", page |-> 0, bbox |-> <<50, 140 + 80 * row, 300, 160 + 80 * row>>,
     question_num |-> n]

\* d without the key k
Without(d, k) == [f \in DOMAIN d \ {k} |-> d[f]]

RegionKeys == {"question_num", "page", "bbox"}

\* question 1 and its answer, when there, are well-formed; the second
\* question, and its answer when there is one, may lack a key
SampleRegionLists ==
    { q1 \o <<q2>> \o a2 :
        q1 \in {<<>>, <<GoodQuestion(1, 0), GoodAnswer(1, 0)>>},
        q2 \in {GoodQuestion(2, 1)} \cup { Without(GoodQuestion(2, 1), k) : k \in RegionKeys },
        a2 \in {<<>>, <<GoodAnswer(2, 1)>>}
               \cup { <<Without(GoodAnswer(2, 1), k)>> : k \in RegionKeys } }

\* the steps that read the regions, in the order process_submission runs them
RegionSteps == <<"analyze_layout", "_extract_answers", "create_marked_pdf", "done">>

\* a layout reaches one of the steps
GiveRegions ==
    /\ call.op = "none"
    /\ \E layout_info \in SampleRegionLists, feedback_nums \in {{1}, {2}, {1, 2}},
          first \in 1..3 :
          call' = [op |-> "regions",
                   step |-> first,
                   raised |-> FALSE,
                   question_regions |-> RegionsOfType(layout_info, "question"),
                   answer_regions |-> RegionsOfType(layout_info, "answer"),
                   feedback_nums |-> feedback_nums,
                   answers |-> {}]
    /\ UNCHANGED <<pdf, layout_analysis, cls, pipelineVars>>

\* analyze_layout, lines 152-153, and process_submission, lines 55-56
SortRegions ==
    /\ call.op = "regions" /\ ~call.raised /\ RegionSteps[call.step] = "analyze_layout"
    /\ call' = IF SortQuestionsRaises(call.question_regions) \/ call.question_regions = <<>>
               THEN [call EXCEPT !.raised = TRUE]
               ELSE [call EXCEPT !.step = @ + 1]
    /\ UNCHANGED <<pdf, layout_analysis, cls, pipelineVars>>

\* _extract_answers, lines 188-209, and process_submission, lines 63-64
ExtractFromRegions ==
    /\ call.op = "regions" /\ ~call.raised /\ RegionSteps[call.step] = "_extract_answers"
    /\ call' = IF AnswersOfRegions(call.question_regions) = {}
               THEN [call EXCEPT !.raised = TRUE]
               ELSE [call EXCEPT !.step = @ + 1,
                                 !.answers = AnswersOfRegions(call.question_regions)]
    /\ UNCHANGED <<pdf, layout_analysis, cls, pipelineVars>>

\* create_marked_pdf, lines 118-156 and 250-252, on a document of one page
PlaceForRegions ==
    /\ call.op = "regions" /\ ~call.raised /\ RegionSteps[call.step] = "create_marked_pdf"
    /\ call' = IF CreateMarkedPdfRaises(call.question_regions, call.answer_regions,
                                        call.feedback_nums, 1)
               THEN [call EXCEPT !.raised = TRUE]
               ELSE [call EXCEPT !.step = @ + 1]
    /\ UNCHANGED <<pdf, layout_analysis, cls, pipelineVars>>

RegionNext == GiveRegions \/ SortRegions \/ ExtractFromRegions \/ PlaceForRegions

RegionSpec == HelperInit /\ [][RegionNext]_vars

(***************************************************************************)
(* Properties                                                              *)
(***************************************************************************)
Placements(file, q) ==
    { k \in 1..Len(file.placements) : file.placements[k].question_num = q }

\* C1: in one run of process_submission the number of planning attempts
\* (calls of create_marked_pdf) never exceeds max_retries.
C1_PlanningAttemptsBounded == n_plans <= max_retries

\* C2: the document process_submission returns is one verify_output was run
\* on, and every planning attempt was followed by a validation of its output.
C2_ReturnedDocumentVerified ==
    pc = "done" => (verified_attempt = marked_pdf.attempt /\ n_verify = n_plans)

\* C3: approved is terminal: once verify_output has approved, no further call
\* of create_marked_pdf or verify_output is made, and quality_check_passed is
\* returned true only if the gate approved the very file that is returned.
C3_ApprovedIsTerminal ==
    /\ [][ (n_verify > 0 /\ qc_result.is_approved)
             => (n_plans' = n_plans /\ n_verify' = n_verify) ]_vars
    /\ [] ( (pc = "done" /\ quality_check_passed)
             => (qc_result.is_approved /\ verified_attempt = marked_pdf.attempt) )
    /\ [] ( (pc \in {"report", "done"} /\ n_verify > 0 /\ qc_result.is_approved)
             => quality_check_passed )

C3_Witness ==
    pc = "done" /\ quality_check_passed /\ n_verify >= 2 /\ marked_pdf.placements # <<>>

\* C4: the retry loop terminates for every sequence of verdicts: once the
\* first planning attempt has started, process_submission returns; and when
\* every validation was rejected it returns after max_retries validations
\* with quality_check_passed false, never by raising.
C4_LoopTerminates ==
    /\ (n_plans > 0) ~> (pc = "done")
    /\ [] (n_plans > 0 => pc # "failed")
    /\ [] ( (pc = "done" /\ ~qc_result.is_approved)
             => (retry_count = max_retries /\ n_verify = max_retries
                 /\ ~quality_check_passed) )

C4_Witness ==
    pc = "done" /\ n_verify = max_retries /\ ~qc_result.is_approved
    /\ ~quality_check_passed

\* C5: whenever the gate approves, no two text rectangles of one page overlap
\* under the closed-interval predicate _rectangles_overlap (touching counts).
C5_ApprovedHasNoOverlap ==
    (pc = "verdict" /\ qc_result.is_approved) =>
        \A i, j \in 1..Len(gate_view.blocks) :
            (i < j /\ gate_view.blocks[i].type = 0 /\ gate_view.blocks[j].type = 0)
                => ~RectanglesOverlap(gate_view.blocks[i].bbox, gate_view.blocks[j].bbox)

\* C6: whenever the gate approves, every question number of the grading
\* results has exactly one feedback placement in the document.
C6_ApprovedExactlyOnePlacement ==
    (pc = "verdict" /\ qc_result.is_approved) =>
        \A i \in 1..Len(grading_results) :
            Cardinality(Placements(marked_pdf, grading_results[i].question_num)) = 1

\* C7: every call of create_marked_pdf draws exactly one feedback placement
\* for each question number of feedback_data.
C7_OnePlacementPerOrdinal ==
    (pc = "loop") =>
        \A i \in 1..Len(grading_results) :
            Cardinality(Placements(marked_pdf, grading_results[i].question_num)) = 1

C9_NoQuestionsAborts ==
    (pc # "start" /\ (layout_analysis.confidence = 0
                       \/ layout_analysis.question_regions = <<>>))
        => (pc = "failed" /\ n_plans = 0 /\ n_verify = 0)

C9_Witness ==
    pc = "failed" /\ layout_analysis.confidence = 0 /\ Len(pdf.lines) >= 2
    /\ \E i \in 1..Len(pdf.lines) : MatchAnswer(pdf.lines[i].text)

\* C10: the confidence is 0.9 exactly when the classifier emitted at least one
\* question region, and 0.0 otherwise, i.e. exactly when the list of question
\* regions is empty.
C10_ConfidenceIffQuestion ==
    cls.done =>
        LET emitted == \E i \in 1..Len(cls.st.layout_info) :
                          cls.st.layout_info[i].type = "question"
        IN  /\ layout_analysis.confidence \in {0, 9}
            /\ (layout_analysis.confidence = 9) <=> emitted
            /\ (layout_analysis.confidence = 0) <=> (layout_analysis.question_regions = <<>>)

C10_Witness ==
    /\ cls.done
    /\ layout_analysis.confidence = 9
    /\ layout_analysis.answer_regions # <<>>
    /\ Len(layout_analysis.question_regions) >= 2

(***************************************************************************)
(* Properties of the overlap tests                                         *)
(***************************************************************************)
\* the invariant of Rectangle: x0 <= x1 and y0 <= y1
WellFormed(r) == r[1] <= r[3] /\ r[2] <= r[4]

\* the closed rectangles a and b have a point in common
SharePoint(a, b) ==
    \E x, y \in 0..MaxCoord :
        /\ a[1] <= x /\ x <= a[3] /\ a[2] <= y /\ y <= a[4]
        /\ b[1] <= x /\ x <= b[3] /\ b[2] <= y /\ y <= b[4]

\* C11: _rectangles_overlap is symmetric, overlaps(a, b) = overlaps(b, a), and
\* reflexive on rectangles with x0 <= x1 and y0 <= y1.
C11_OverlapSymmetricReflexive ==
    call.op = "_rectangles_overlap" =>
        /\ call.pdf_formatter = RectanglesOverlap(call.rect2, call.rect1)
        /\ (WellFormed(call.rect1) /\ call.rect1 = call.rect2) => call.pdf_formatter

C11_Witness ==
    /\ call.op = "_rectangles_overlap"
    /\ WellFormed(call.rect1) /\ WellFormed(call.rect2)
    /\ call.rect1[3] = call.rect2[1] /\ call.rect1[1] < call.rect1[3]
    /\ call.rect1[2] = call.rect2[2] /\ call.rect1[4] = call.rect2[4]
    /\ call.pdf_formatter

\* C12: on rectangles with x0 <= x1 and y0 <= y1, _rectangles_overlap (the
\* formatter's and the gate's copy) is true exactly when the closed intervals
\* meet on both axes, so a shared edge or corner counts as overlap.
C12_OverlapIsClosedIntersection ==
    (call.op = "_rectangles_overlap" /\ WellFormed(call.rect1) /\ WellFormed(call.rect2)) =>
        /\ call.pdf_formatter = SharePoint(call.rect1, call.rect2)
        /\ call.quality_control = SharePoint(call.rect1, call.rect2)

C12_Witness ==
    /\ call.op = "_rectangles_overlap"
    /\ WellFormed(call.rect1) /\ WellFormed(call.rect2)
    /\ call.rect1[3] = call.rect2[1] /\ call.rect1[4] = call.rect2[2]
    /\ call.rect1[1] < call.rect1[3] /\ call.rect2[1] < call.rect2[3]
    /\ call.rect1[2] < call.rect1[4] /\ call.rect2[2] < call.rect2[4]
    /\ call.pdf_formatter /\ call.quality_control

\* C18: the overlap test verify_output applies to two rectangles gives the
\* answer of _rectangles_overlap for every pair, touching pairs and
\* zero-width or zero-height rectangles included.
C18_OneOverlapSemantics ==
    (call.op = "_rectangles_overlap" /\ WellFormed(call.rect1) /\ WellFormed(call.rect2)) =>
        /\ call.verify_output = call.pdf_formatter
        /\ call.document_analyzer = call.pdf_formatter
        /\ call.quality_control = call.pdf_formatter

(***************************************************************************)
(* Properties of the word wrapping                                         *)
(***************************************************************************)
\* whitespace normalisation: no leading or trailing space, runs of spaces
\* collapsed to one
RECURSIVE Collapse(_, _, _)
Collapse(text, i, acc) ==
    IF i > Len(text) THEN acc
    ELSE IF text[i] = " " /\ (acc = <<>> \/ acc[Len(acc)] = " ")
         THEN Collapse(text, i + 1, acc)
         ELSE Collapse(text, i + 1, Append(acc, text[i]))

Normalize(text) ==
    LET c == Collapse(text, 1, <<>>)
    IN  IF c # <<>> /\ c[Len(c)] = " " THEN SubSeq(c, 1, Len(c) - 1) ELSE c

Stacked(placements) ==
    \A i, j \in 1..Len(placements) :
        (i < j /\ placements[i].page = placements[j].page) =>
            /\ ~RectanglesOverlap(placements[i].text_rect, placements[j].text_rect)
            /\ placements[j].text_rect[2] > placements[i].text_rect[4]

\* the first feedback block of a page starts at the top of the margin
FreshPerPage(placements) ==
    \A j \in 1..Len(placements) :
        (\A i \in 1..(j - 1) : placements[i].page # placements[j].page)
            => placements[j].anchor[2] = InitialMarginY

\* C14: within one attempt the rectangles of the feedback placed on one page
\* never overlap: the space taken on a page only grows while the attempt
\* runs, and every page and every attempt starts with none taken.
C14_PlacementsDoNotOverlap ==
    /\ Stacked(new_doc) /\ FreshPerPage(new_doc)
    /\ Stacked(marked_pdf.placements) /\ FreshPerPage(marked_pdf.placements)

C14_Witness ==
    /\ pc = "loop" /\ retry_count >= 1
    /\ \E i, j \in 1..Len(marked_pdf.placements) :
          /\ i < j
          /\ marked_pdf.placements[i].page = marked_pdf.placements[j].page
          /\ marked_pdf.placements[i].question_num # marked_pdf.placements[j].question_num
          /\ marked_pdf.placements[i].answer_rect # marked_pdf.placements[j].answer_rect

(***************************************************************************)
(* Properties of the planner                                               *)
(***************************************************************************)
\* the anchor of strategy 1 and the padded block there
RightOfAnchor(answer_info) == <<answer_info.bbox[3] + 300, answer_info.bbox[2]>>

RightOfBlock(answer_info, text) ==
    << RightOfAnchor(answer_info)[1] - 50,
       RightOfAnchor(answer_info)[2] - 50,
       RightOfAnchor(answer_info)[1] + text * CharWidth + 50,
       RightOfAnchor(answer_info)[2] + 130 + 50 >>

\* C15: strategy 1 wins whenever it succeeds: when the text fits in
\* pageWidth - anchor.x - margin right of the response and the padded block
\* at (response.x1 + gap, response.y0) overlaps nothing on the page, the
\* planner returns that anchor with a single line.
C15_RightOfResponseWins ==
    ( /\ call.op = "_plan_feedback_placement"
      /\ call.text * CharWidth
            <= 10 * call.page_rect.width - RightOfAnchor(call.answer_info)[1] - 500
      /\ ~HasOverlap(RightOfBlock(call.answer_info, call.text), call.layout,
                     call.answer_info.page) )
    => ( /\ call.result.position = RightOfAnchor(call.answer_info)
         /\ ~call.result.is_multiline )

(***************************************************************************)
(* Properties of the steps that read the regions                           *)
(***************************************************************************)
WellFormedRegion(r) == RegionKeys \subseteq DOMAIN r

GateFailed == pc = "verdict" /\ gate_view.raises

\* C17: an exception raised while verify_output examines the document does
\* not reach process_submission: verify_output returns is_approved = false
\* with exactly one issue, the one describing the failure, and the loop goes
\* on to the next create_marked_pdf, so the run still returns.
C17_GateFailureIsOneIssue ==
    /\ [] ( GateFailed => /\ ~qc_result.is_approved
                          /\ Len(qc_result.issues) = 1
                          /\ qc_result.issues[1].kind = "check_failed" )
    /\ [][ GateFailed => /\ pc' = "format" /\ caller' = "retry"
                         /\ retry_count' = retry_count
                         /\ ~quality_check_passed' ]_vars
    /\ [] ( pc = "failed" => n_verify = 0 )

\* every call of verify_output raised, and the run returned exhausted
C17_Witness ==
    /\ pc = "done" /\ n_verify = max_retries /\ retry_count = max_retries
    /\ Len(qc_result.issues) = 1 /\ qc_result.issues[1].kind = "check_failed"
    /\ ~quality_check_passed

\* C19: every QCResult verify_output returns has is_approved true exactly
\* when its issues list is empty, on the normal and on the exception path.
C19_ApprovedIffNoIssues ==
    n_verify > 0 => (qc_result.is_approved <=> qc_result.issues = <<>>)

\* a result of the normal path with exactly one issue
C19_Witness ==
    /\ pc = "verdict" /\ ~gate_view.raises
    /\ Len(qc_result.issues) = 1 /\ ~qc_result.is_approved

\* the question numbers a missing-feedback issue of the result names
ReportedMissing ==
    UNION { { qc_result.issues[i].qs[k] : k \in 1..Len(qc_result.issues[i].qs) } :
              i \in { h \in 1..Len(qc_result.issues) : qc_result.issues[h].kind = "missing" } }

FeedbackNums == { grading_results[i].question_num : i \in 1..Len(grading_results) }

\* C20: when verify_output ran to its end, its result names n as missing
\* exactly when n is the question_num of an original feedback item and no
\* page of the file holds the feedback of n.
C20_MissingIffOnNoPage ==
    (pc = "verdict" /\ ~gate_view.raises)
        => \A n \in 0..3 :
              n \in ReportedMissing
                 <=> (n \in FeedbackNums /\ Placements(marked_pdf, n) = {})

\* of two pages one holds the feedback of one question, which is not
\* reported, and none holds the feedback of the other, which is
C20_Witness ==
    /\ pc = "verdict" /\ ~gate_view.raises
    /\ pdf.num_pages = 2
    /\ ReportedMissing # {}
    /\ \E n \in FeedbackNums :
          /\ n \notin ReportedMissing
          /\ Cardinality({ marked_pdf.placements[k].page : k \in Placements(marked_pdf, n) }) = 1

(***************************************************************************)
(* Properties of verify_output on its own                                  *)
(***************************************************************************)
\* the spec's condition for a rectangle out of the page
OutOfBounds(r, rect) == r[1] < 0 \/ r[3] > rect.width \/ r[2] < 0 \/ r[4] > rect.height

\* the issues of one kind the result holds for a page
IssuesOfKind(result, kind, page) ==
    { i \in 1..Len(result.issues) :
        result.issues[i].kind = kind /\ result.issues[i].page = page }

\* C21: verify_output adds one out-of-bounds issue for the page for every
\* text block with x0 < 0 or x1 > page width or y0 < 0 or y1 > page height,
\* and none for any other block: a block exactly on the page edge and a
\* block that is not text are not reported.
C21_OutOfBoundsIffBeyondPage ==
    call.op = "verify_output"
        => Cardinality(IssuesOfKind(call.result, "beyond_margins", 1))
             = Cardinality({ i \in 1..Len(call.blocks) :
                               /\ call.blocks[i].type = 0
                               /\ OutOfBounds(call.blocks[i].bbox, call.rect) })

\* a text block that covers the page exactly, alone on the page: no issue
C21_Witness ==
    /\ call.op = "verify_output"
    /\ call.blocks = <<TextBlock(<<0, 0, GatePageRect.width, GatePageRect.height>>)>>
    /\ call.result.issues = <<>> /\ call.result.is_approved

(***************************************************************************)
(* Properties of the order of the feedback on a page                       *)
(***************************************************************************)
Ascending(nums) == \A i, j \in 1..Len(nums) : i < j => nums[i] <= nums[j]

\* C22: on every page create_marked_pdf places the feedback in ascending
\* order of question_num, whatever the order of feedback_data and whatever
\* the vertical order of the questions on the page.
C22_PlannedInOrdinalOrder ==
    call.op = "create_marked_pdf"
        => \A p \in 1..Len(call.pages) :
              Ascending([i \in 1..Len(call.pages[p]) |-> call.pages[p][i].question_num])

\* question 2 stands above question 1 on the page, feedback_data lists 2
\* first, and the feedback of 1 is drawn first
C22_Witness ==
    /\ call.op = "create_marked_pdf"
    /\ call.feedback_data[1].question_num = 2
    /\ Len(call.lines) >= 2
    /\ call.lines[1].text = <<"2", ")", " ", "w">>
    /\ call.lines[2].text = <<"Question", " ", "1", ":", " ", "w">>
    /\ Len(call.pages[1]) = 2
    /\ call.pages[1][1].question_num = 1 /\ call.pages[1][2].question_num = 2

(***************************************************************************)
(* Properties of _find_next_available_space                                *)
(***************************************************************************)
\* the rows the scan can try: from the top margin, one text height and 10
\* points apart, above page height - margin
ScanRows(text_dims, page_info) ==
    { y \in 500..(page_info.height - 500 - 1) : (y - 500) % (text_dims.height + 100) = 0 }

\* the padded rectangle of the row at y overlaps no region of the page
RowIsFree(y, text_dims, layout, page_info) ==
    ~HasOverlap(<<500 - 50, y - 50, 500 + (page_info.width - 1000) + 50,
                  y + text_dims.height + 50>>, layout, 0)

FreeRows(text_dims, layout, page_info) ==
    { y \in ScanRows(text_dims, page_info) : RowIsFree(y, text_dims, layout, page_info) }

\* C23: _find_next_available_space returns the free row of smallest y among
\* the rows from the top margin down to page height - margin, and the fixed
\* position (50, 50) only when none of them is free.
C23_FirstFreeRowOrLastResort ==
    call.op = "_find_next_available_space"
        => LET free == FreeRows(call.text_dims, call.layout, call.page_info)
           IN  IF free = {}
               THEN call.result = <<500, 500>>
               ELSE /\ call.result[1] = 500
                    /\ call.result[2] \in free
                    /\ \A y \in free : call.result[2] <= y

\* occupied rows were passed over before the free one was returned
C23_Witness ==
    /\ call.op = "_find_next_available_space"
    /\ call.result[2] > 500
    /\ ~RowIsFree(500, call.text_dims, call.layout, call.page_info)
    /\ RowIsFree(call.result[2], call.text_dims, call.layout, call.page_info)

(***************************************************************************)
(* Properties of the classifier, line by line                              *)
(***************************************************************************)
\* the lines the loop has gone through
Classified == 1..(cls.i - 1)

IsPromptLine(i) == MatchQuestion(pdf.lines[i].text).ok

\* the lines before line i that opened a prompt
PromptsBefore(i) == { h \in 1..(i - 1) : IsPromptLine(h) }

\* the number of the prompt opened last before line i
LastPromptOrdinal(i) ==
    MatchQuestion(pdf.lines[CHOOSE h \in PromptsBefore(i) :
                               \A g \in PromptsBefore(i) : g <= h].text).num

\* the regions emitted for line i
RegionsOfLine(i) ==
    { k \in 1..Len(cls.st.layout_info) :
        /\ cls.st.layout_info[k].page = pdf.lines[i].page
        /\ cls.st.layout_info[k].bbox = pdf.lines[i].bbox }

C25_PlainBeforePromptAndPromptNeverResponse ==
    \A i \in Classified :
        /\ (~IsPromptLine(i) /\ PromptsBefore(i) = {}) => RegionsOfLine(i) = {}
        /\ IsPromptLine(i)
              => \A k \in RegionsOfLine(i) : cls.st.layout_info[k].type = "question"

\* an answer marker on the first line, then a prompt directly below a prompt
C25_Witness ==
    /\ cls.done
    /\ Len(pdf.lines) = 3
    /\ MatchAnswer(pdf.lines[1].text)
    /\ IsPromptLine(2) /\ IsPromptLine(3)
    /\ Len(cls.st.layout_info) = 2

(***************************************************************************)
(* Properties of the loops of _plan_feedback_placement                     *)
(***************************************************************************)
\* C26: the "below answer" loop starts at (answer x0, answer y1 + 15), moves
\* y down by the same positive amount each time the candidate overlaps, and
\* the move that takes y beyond page height - 50 hands over to the scan; the
\* call always returns, with the position the planner computes.
C26_BelowLoopTerminates ==
    /\ [][ (call.op = "plan" /\ call.at = "below" /\ call'.at = "below")
             => /\ call'.y = call.y + 230
                /\ call'.y <= call.page_dims.height - 500 ]_vars
    /\ [][ (call.op = "plan" /\ call.at = "below" /\ call'.at = "scan")
             => call.y + 230 > call.page_dims.height - 500 ]_vars
    /\ [] ( (call.op = "plan" /\ call.at = "returned")
              => <<call.x, call.y>>
                   = PlanFeedbackPlacement(call.text, call.answer_info,
                                           call.layout, TRUE).position )
    /\ (call.op = "plan") ~> (call.op = "plan" /\ call.at = "returned")

\* the loop moved down more than once, handed over, and the scan returned
C26_Witness ==
    /\ call.op = "plan" /\ call.at = "returned"
    /\ call.moves >= 3
    /\ call.x = 500

(***************************************************************************)
(* Properties of the retries                                               *)
(***************************************************************************)
\* the gate reads the file as v at every call of this run
GateAlwaysReads(v) == [] (pc = "verdict" => gate_view = v)

C28_BoxInsidePage ==
    call.op = "draw_page"
        => \A i \in 1..Len(call.drawn) :
              /\ call.drawn[i].text_rect[2] >= 0
              /\ call.drawn[i].text_rect[4] <= 10 * call.rect.height
              /\ call.drawn[i].text_rect[3] <= 14 * call.rect.width

\* C29: every feedback box lies strictly right of the scaled content of the
\* original page and of every highlighted answer rectangle, for every page
\* width and every answer bbox inside the original page.
C29_BoxRightOfContent ==
    call.op = "draw_page"
        => \A i \in 1..Len(call.drawn) :
              /\ call.drawn[i].text_rect[1] > ScaleAndShift(call.rect.width)
              /\ \A j \in 1..Len(call.drawn) :
                    call.drawn[i].text_rect[1] > call.drawn[j].answer_rect[3]

\* fourteen boxes on the narrowest page, with answers that reach the right
\* edge of the original page
C29_Witness ==
    /\ call.op = "draw_page"
    /\ Len(call.drawn) = 14
    /\ call.rect.width = 420
    /\ call.drawn[1].answer_rect[3] = ScaleAndShift(call.rect.width)

(***************************************************************************)
(* Properties of the comment of PDFService.create_marked_pdf               *)
(***************************************************************************)
\* C30: the wrapping of the comment loses no text: for every comment and
\* every chars_per_line, the lines inserted on the page hold each word of
\* the comment once and in order.
C30_CommentKeepsEveryWord ==
    call.op = "insert_comment"
        => JoinStrings(call.inserted) = Normalize(call.comment)

====
